---- MODULE Spec2Model ----
(***************************************************************************)
(* Model of storage/volume.go: the Volume record and its native handle,    *)
(* the VolumeSet, and the operations Close, Flush, Format, Optimize,       *)
(* SetFileSystemLabel, Query, VolumeSet.Close and Service.GetVolumes.      *)
(*                                                                         *)
(* The package is single-threaded glue over a native automation API.  The  *)
(* model is a caller that invokes the exported operations in any order on  *)
(* the Volumes it holds (the members of the last VolumeSet it obtained and *)
(* the Volume returned by the last Format), with every outcome the native  *)
(* layer can produce chosen nondeterministically.                          *)
(***************************************************************************)
EXTENDS Integers, Sequences, FiniteSets, TLC

(* ------------------------------ bounds -------------------------------- *)
\* largest Count a query result reports
MaxCount == 2
\* native objects that may be created in one run
MaxHandles == 3
\* Release calls counted per handle
MaxRelease == 2
\* largest status code a native method returns
MaxStatus == 2
\* longest filter string passed to GetVolumes
MaxFilterLen == 3

(* ------------------------------ state --------------------------------- *)
VARIABLES
    released,   \* released[h]: number of Release calls made on native handle h
    nextHandle, \* the next native object the native layer will hand out
    vset,       \* VolumeSet.Volumes of the VolumeSet the caller holds
    fvol,       \* the Volume the caller got from its last Format (Volume{} before)
    last,       \* what the last operation did: arguments passed down, result, error
    crashed     \* the process died (nil dereference, or use of a freed object)

vars == <<released, nextHandle, vset, fvol, last, crashed>>

(* ------------------------------ strings ------------------------------- *)
\* A string is a sequence of one-character strings.
QueryBase ==
    <<"S","E","L","E","C","T"," ","*"," ","F","R","O","M"," ",
      "M","S","F","T","_","V","o","l","u","m","e">>

\* fmt.Sprintf("%s %s", a, b)
Sprintf_s_s(a, b) == a \o <<" ">> \o b

FilterChars == {"W", " ", "%"}

RECURSIVE StringsUpTo(_, _)
StringsUpTo(chars, n) ==
    IF n = 0 THEN {<<>>}
    ELSE LET shorter == StringsUpTo(chars, n - 1)
         IN shorter \cup {Append(s, c) : s \in {t \in shorter : Len(t) = n - 1}, c \in chars}

Filters == StringsUpTo(FilterChars, MaxFilterLen)

(* --------------------------- values and errors ------------------------ *)
\* a nil *ole.IDispatch
Nil == 0

Handles == 1..MaxHandles

\* an interface{} argument that is nil, or that holds the value x
Null == <<>>
Some(x) == <<x>>

\* an error built by fmt.Errorf(text, arg); arg is 0 where text formats no number
Errorf(text, arg) == [text |-> text, code |-> arg]
NilErr == Errorf("", 0)

\* The ten properties of MSFT_Volume, in the order Query reads them.
PropOrder ==
    <<"DriveLetter", "Path", "FileSystem", "FileSystemLabel",
      "HealthStatus", "FileSystemType", "Size", "SizeRemaining", "DriveType", "DedupMode">>

NumProps == Len(PropOrder)

\* the properties Query decodes with assignVariant
NonStringProps ==
    {"HealthStatus", "FileSystemType", "Size", "SizeRemaining", "DriveType", "DedupMode"}

\* the position of a property in PropOrder
PropIndex(p) ==
    CASE p = "DriveLetter" -> 1
      [] p = "Path" -> 2
      [] p = "FileSystem" -> 3
      [] p = "FileSystemLabel" -> 4
      [] p = "HealthStatus" -> 5
      [] p = "FileSystemType" -> 6
      [] p = "Size" -> 7
      [] p = "SizeRemaining" -> 8
      [] p = "DriveType" -> 9
      [] p = "DedupMode" -> 10

\* Volume{}: every field at its zero value, no handle
ZeroVolume ==
    [DriveLetter |-> 0, Path |-> 0, HealthStatus |-> 0, FileSystem |-> 0,
     FileSystemLabel |-> 0, FileSystemType |-> 0, Size |-> 0, SizeRemaining |-> 0,
     DriveType |-> 0, DedupMode |-> 0, handle |-> Nil]

\* The value the native object behind handle h reports for a property: a
\* non-zero token that identifies the object.
NativeProp(h, p) == h

\* The result VARIANT of a native method: an int32 status, or a value of
\* another type (for which the assertion .(int32) yields 0, false).
Variants == [vt : {"int32"}, val : 0..MaxStatus] \cup {[vt |-> "other", val |-> 0]}

\* What the native layer answers to a method call: the call panics, fails,
\* or succeeds with the result res; obj tells whether a successful Format
\* stored a new object in formattedVolume.
Answer(outcome, res, obj) == [outcome |-> outcome, res |-> res, obj |-> obj]
NoRes == [vt |-> "other", val |-> 0]
StatusOK == [vt |-> "int32", val |-> 0]
Answers ==
    {Answer("panic", NoRes, FALSE), Answer("err", NoRes, FALSE)}
        \cup {Answer("ok", res, FALSE) : res \in Variants}
FormatAnswers == Answers \cup {Answer("ok", StatusOK, TRUE)}

\* What a call through handle h can do: a nil handle is dereferenced (panic);
\* an object already released is freed memory, and anything may happen.
CallOutcomes(h) ==
    IF h = Nil THEN {"panic"}
    ELSE IF released[h] > 0 THEN {"panic", "err", "ok"}
    ELSE {"err", "ok"}

\* the arguments of a call of Format
FormatInput(fs, fsLabel, alloc, full, force, compress, shortn, integrity, lfrs, dhg) ==
    [fs |-> fs, fsLabel |-> fsLabel, allocationUnitSize |-> alloc, full |-> full,
     force |-> force, compress |-> compress, shortFileNameSupport |-> shortn,
     setIntegrityStreams |-> integrity, useLargeFRS |-> lfrs,
     disableHeatGathering |-> dhg]

\* the record of an operation that has not passed anything down yet
NoCall ==
    [op |-> "none", recv |-> 0, handle |-> Nil, err |-> NilErr, reads |-> 0,
     outcome |-> "none", res |-> NoRes,
     fs |-> <<>>, fsLabel |-> <<>>, ialloc |-> Null, full |-> FALSE, force |-> FALSE,
     icompress |-> Null, ishortn |-> Null, iintegrity |-> Null, ilfrs |-> Null,
     disableHeatGathering |-> FALSE, optimize |-> <<>>, out |-> Nil,
     in |-> FormatInput(<<>>, <<>>, 0, FALSE, FALSE, FALSE, FALSE, FALSE, FALSE, FALSE),
     filter |-> <<>>, query |-> <<>>, execOK |-> FALSE, countOK |-> FALSE, count |-> 0,
     failIdx |-> 0, items |-> <<>>, resultReleased |-> FALSE]

\* the Volumes the caller can call a method on: 0 is fvol, k > 0 is vset[k]
Receivers == 0..Len(vset)
Recv(r) == IF r = 0 THEN fvol ELSE vset[r]

(* ------------------------------ Close --------------------------------- *)
\* Volume.Close on a Volume whose handle is h: the Release calls on every
\* handle after it returns.
CloseReleases(rel, h) ==
    IF h # Nil THEN [rel EXCEPT ![h] = @ + 1] ELSE rel

\* whether Release is called on memory that was already freed
ReleasesFreed(rel, h) == h # Nil /\ rel[h] > 0

VolumeClose(r, dies) ==
    LET h == Recv(r).handle IN
    /\ ~crashed
    /\ h # Nil => released[h] < MaxRelease
    /\ dies => ReleasesFreed(released, h)
    /\ released' = CloseReleases(released, h)
    /\ crashed' = dies
    /\ last' = [NoCall EXCEPT !.op = "Close", !.recv = r, !.handle = h]
    /\ UNCHANGED <<nextHandle, vset, fvol>>

(* ------------------------------ Query --------------------------------- *)
\* The Volume after Query has read the first n properties, of which those in
\* bad could not be decoded by assignVariant: the failure is logged and the
\* field keeps the value it had.
QueryFields(v, n, bad) ==
    [f \in DOMAIN v |->
        IF f # "handle" /\ PropIndex(f) <= n /\ f \notin bad
        THEN NativeProp(v.handle, f) ELSE v[f]]

\* Query without the test of the handle
QueryNoHandleCheck(v, failAt, bad) ==
    IF failAt # 0
    THEN [vol |-> QueryFields(v, failAt - 1, bad),
          err |-> Errorf("oleutil.GetProperty(%s): %w", failAt),
          reads |-> failAt]
    ELSE [vol |-> QueryFields(v, NumProps, bad), err |-> NilErr, reads |-> NumProps]

\* Query on Volume v when GetProperty fails on property number failAt (0: no
\* failure): the Volume afterwards, the error, and the GetProperty calls made.
Query(v, failAt, bad) ==
    IF v.handle = Nil
    THEN [vol |-> v, err |-> Errorf("invalid handle", 0), reads |-> 0]
    ELSE IF failAt # 0
    THEN [vol |-> QueryFields(v, failAt - 1, bad),
          err |-> Errorf("oleutil.GetProperty(%s): %w", failAt),
          reads |-> failAt]
    ELSE [vol |-> QueryFields(v, NumProps, bad), err |-> NilErr, reads |-> NumProps]

\* sets of properties whose decoding fails in one Query
DecodeFailures == {{}, {"Size", "DedupMode"}}

VolumeQuery(r, failAt, bad, dies) ==
    LET v == Recv(r)
        q == Query(v, failAt, bad) IN
    /\ ~crashed
    /\ dies => v.handle # Nil /\ released[v.handle] > 0
    /\ dies \/ v.handle = Nil => failAt = 0 /\ bad = {}
    /\ crashed' = dies
    /\ last' = IF dies
               THEN [NoCall EXCEPT !.op = "Query", !.recv = r, !.handle = v.handle,
                                   !.outcome = "panic"]
               ELSE [NoCall EXCEPT !.op = "Query", !.recv = r, !.handle = v.handle,
                                   !.err = q.err, !.reads = q.reads]
    /\ IF dies THEN UNCHANGED <<vset, fvol>>
       ELSE IF r = 0 THEN fvol' = q.vol /\ UNCHANGED vset
       ELSE vset' = [vset EXCEPT ![r] = q.vol] /\ UNCHANGED fvol
    /\ UNCHANGED <<released, nextHandle>>

(* ------------------- status codes of the mutating calls --------------- *)
\* val, ok := res.Value().(int32)
AssertInt32(res) ==
    [val |-> IF res.vt = "int32" THEN res.val ELSE 0, ok |-> res.vt = "int32"]

\* StatusError with the test written val != 0 alone: a result that is no int32
\* passes for success
StatusErrorIgnoresType(wrapText, codeText, outcome, res) ==
    IF outcome = "err" THEN Errorf(wrapText, 0)
    ELSE LET a == AssertInt32(res) IN
         IF a.val # 0 THEN Errorf(codeText, a.val) ELSE NilErr

\* The error a mutating operation returns: the call failed (wrapText), or it
\* returned a status that is not the int32 0 (codeText, with the value).
StatusError(wrapText, codeText, outcome, res) ==
    IF outcome = "err" THEN Errorf(wrapText, 0)
    ELSE LET a == AssertInt32(res) IN
         IF a.val # 0 \/ ~a.ok THEN Errorf(codeText, a.val) ELSE NilErr

\* what the four operations have in common: the native call through the
\* receiver's handle, and the record of it
NativeCall(op, r, ans, err, rec) ==
    /\ ~crashed
    /\ ans.outcome \in CallOutcomes(Recv(r).handle)
    /\ crashed' = (ans.outcome = "panic")
    /\ last' = [rec EXCEPT !.op = op, !.recv = r, !.handle = Recv(r).handle,
                           !.outcome = ans.outcome, !.res = ans.res,
                           !.err = IF ans.outcome = "panic" THEN NilErr ELSE err]

Flush(r, ans) ==
    /\ NativeCall("Flush", r, ans,
                  StatusError("Flush: %w", "error code returned during flush: %d",
                              ans.outcome, ans.res),
                  NoCall)
    /\ UNCHANGED <<released, nextHandle, vset, fvol>>

Optimize(r, flags, ans) ==
    /\ NativeCall("Optimize", r, ans,
                  StatusError("Optimize: %w",
                              "error code returned during optimization: %d",
                              ans.outcome, ans.res),
                  [NoCall EXCEPT !.optimize = flags])
    /\ UNCHANGED <<released, nextHandle, vset, fvol>>

SetFileSystemLabel(r, fileSystemLabel, ans) ==
    /\ NativeCall("SetFileSystemLabel", r, ans,
                  StatusError("SetFileSystemLabel: %w",
                              "error code returned during setting file system label: %d",
                              ans.outcome, ans.res),
                  [NoCall EXCEPT !.fsLabel = fileSystemLabel])
    /\ UNCHANGED <<released, nextHandle, vset, fvol>>

(* ------------------------------ Format -------------------------------- *)
\* simple case folding of one character (unicode.SimpleFold orbits): the
\* letters of the file system names, and U+017F, which folds to s
FoldChar(c) ==
    CASE c \in {"R", "r"} -> "r"
      [] c \in {"E", "e"} -> "e"
      [] c \in {"F", "f"} -> "f"
      [] c \in {"S", "s", "U+017F"} -> "s"
      [] c \in {"N", "n"} -> "n"
      [] c \in {"T", "t"} -> "t"
      [] c \in {"A", "a"} -> "a"
      [] c \in {"X", "x"} -> "x"
      [] OTHER -> c

\* strings.EqualFold(s, t)
EqualFold(s, t) ==
    /\ Len(s) = Len(t)
    /\ \A k \in 1..Len(s) : FoldChar(s[k]) = FoldChar(t[k])

ReFS == <<"R", "e", "F", "S">>

\* FormatArgs with the file system compared by ==, not by strings.EqualFold
FormatArgsCaseSensitive(in) ==
    LET refs == (ReFS = in.fs) IN
    [NoCall EXCEPT
        !.in = in,
        !.fs = in.fs,
        !.fsLabel = in.fsLabel,
        !.ialloc = IF in.allocationUnitSize # 0 THEN Some(in.allocationUnitSize) ELSE Null,
        !.full = in.full,
        !.force = in.force,
        !.icompress = IF refs THEN Null ELSE Some(in.compress),
        !.ishortn = IF refs THEN Null ELSE Some(in.shortFileNameSupport),
        !.iintegrity = IF refs THEN Some(in.setIntegrityStreams) ELSE Null,
        !.ilfrs = IF refs THEN Some(in.useLargeFRS) ELSE Null,
        !.disableHeatGathering = in.disableHeatGathering]

\* the arguments Format passes to the native Format method
FormatArgs(in) ==
    LET refs == EqualFold(ReFS, in.fs) IN
    [NoCall EXCEPT
        !.in = in,
        !.fs = in.fs,
        !.fsLabel = in.fsLabel,
        !.ialloc = IF in.allocationUnitSize # 0 THEN Some(in.allocationUnitSize) ELSE Null,
        !.full = in.full,
        !.force = in.force,
        !.icompress = IF refs THEN Null ELSE Some(in.compress),
        !.ishortn = IF refs THEN Null ELSE Some(in.shortFileNameSupport),
        !.iintegrity = IF refs THEN Some(in.setIntegrityStreams) ELSE Null,
        !.ilfrs = IF refs THEN Some(in.useLargeFRS) ELSE Null,
        !.disableHeatGathering = in.disableHeatGathering]

\* Format without the assignment to vol.handle
FormatVolumeNoHandle(err, out) == ZeroVolume

\* The Volume Format returns: Volume{} on an error; otherwise a Volume that
\* holds formattedVolume.ToIDispatch(), which is nil unless the native call
\* stored an object in formattedVolume.
FormatVolume(err, out) ==
    IF err # NilErr THEN ZeroVolume ELSE [ZeroVolume EXCEPT !.handle = out]

\* in: the caller's arguments; ans: the native layer's answer
Format(r, in, ans) ==
    LET err == StatusError("Format: %w", "error code returned during formatting: %d",
                           ans.outcome, ans.res)
        out == IF ans.obj THEN nextHandle ELSE Nil IN
    /\ ans.obj => nextHandle <= MaxHandles
    /\ NativeCall("Format", r, ans, err, [FormatArgs(in) EXCEPT !.out = out])
    /\ nextHandle' = IF ans.obj THEN nextHandle + 1 ELSE nextHandle
    /\ fvol' = IF ans.outcome = "panic" THEN fvol ELSE FormatVolume(err, out)
    /\ UNCHANGED <<released, vset>>

(* --------------------------- VolumeSet.Close -------------------------- *)
\* VolumeSet.Close leaving the loop after its first Volume
CloseRangeFirstOnly(rel, vols, k, n) ==
    IF k > n THEN rel ELSE CloseReleases(rel, vols[k].handle)

\* the Release calls on every handle after v.Close() has run for the
\* Volumes vols[k], ..., vols[n], in that order
RECURSIVE CloseRange(_, _, _, _)
CloseRange(rel, vols, k, n) ==
    IF k > n THEN rel
    ELSE CloseRange(CloseReleases(rel, vols[k].handle), vols, k + 1, n)

\* stopAt = 0: the loop runs to its end; stopAt = k: the Release of member k
\* touches freed memory and the process dies there
VolumeSetClose(stopAt) ==
    LET n == IF stopAt = 0 THEN Len(vset) ELSE stopAt IN
    /\ ~crashed
    /\ \A k \in 1..Len(vset) :
          vset[k].handle # Nil => released[vset[k].handle] < MaxRelease
    /\ stopAt # 0 =>
          ReleasesFreed(CloseRange(released, vset, 1, stopAt - 1), vset[stopAt].handle)
    /\ released' = CloseRange(released, vset, 1, n)
    /\ crashed' = (stopAt # 0)
    /\ last' = [NoCall EXCEPT !.op = "VolumeSet.Close"]
    /\ UNCHANGED <<nextHandle, vset, fvol>>

(* ------------------------------ GetVolumes ---------------------------- *)
\* BuildQuery with the format "%s%s"
BuildQueryNoSpace(filter) ==
    IF filter # <<>> THEN QueryBase \o filter ELSE QueryBase

\* the query string GetVolumes builds from the filter
BuildQuery(filter) ==
    IF filter # <<>> THEN Sprintf_s_s(QueryBase, filter) ELSE QueryBase

\* What the native layer answers during one GetVolumes call:
\*   execOK, countOK  ExecQuery and the read of Count succeed
\*   count            the Count of the result
\*   failIdx          0, or the number (from 1) of the result item that fails
\*   failKind         how it fails: the ItemIndex call fails, its result holds
\*                    no object, or a GetProperty in Query fails (at qFailAt)
\*   bad              per appended item, the properties that fail to decode
EnvFor(execOK, countOK, count, failIdx, failKind, qFailAt, bad) ==
    [execOK |-> execOK, countOK |-> countOK, count |-> count, failIdx |-> failIdx,
     failKind |-> failKind, qFailAt |-> qFailAt, bad |-> bad]

\* The loop over the result items from index i on.  acc holds the Volumes
\* appended so far, the handles fetched so far, and the error; base is the
\* first object the native layer hands out.
RECURSIVE EnumLoop(_, _, _, _)
EnumLoop(i, acc, env, base) ==
    LET fails == env.failIdx = i + 1 IN
    IF i >= env.count THEN acc
    ELSE IF fails /\ env.failKind = "ItemIndex"
    THEN [acc EXCEPT !.err = Errorf("oleutil.CallMethod(ItemIndex, %d): %w", i)]
    ELSE LET h == IF fails /\ env.failKind = "NotDispatch" THEN Nil
                  ELSE base + Len(acc.items)
             v == [ZeroVolume EXCEPT !.handle = h]
             q == Query(v, IF fails /\ env.failKind = "Query" THEN env.qFailAt ELSE 0,
                        IF i + 1 \in DOMAIN env.bad THEN env.bad[i + 1] ELSE {})
             items == IF h = Nil THEN acc.items ELSE Append(acc.items, h)
         IN IF q.err # NilErr
            THEN [acc EXCEPT !.items = items, !.err = q.err]
            ELSE EnumLoop(i + 1, [acc EXCEPT !.vols = Append(@, q.vol), !.items = items],
                          env, base)

\* GetVolumes returning VolumeSet{} with every error
GetVolumesResultEmptyOnError(env, base) ==
    LET none == [vols |-> <<>>, items |-> <<>>, err |-> NilErr]
        g == EnumLoop(0, none, env, base) IN
    IF ~env.execOK THEN [none EXCEPT !.err = Errorf("ExecQuery(%s): %w", 0)]
    ELSE IF ~env.countOK THEN [none EXCEPT !.err = Errorf("oleutil.GetProperty(Count): %w", 0)]
    ELSE IF g.err # NilErr THEN [g EXCEPT !.vols = <<>>]
    ELSE g

\* GetVolumes with the loop written i < count-1
GetVolumesResultSkipsLast(env, base) ==
    LET none == [vols |-> <<>>, items |-> <<>>, err |-> NilErr] IN
    IF ~env.execOK THEN [none EXCEPT !.err = Errorf("ExecQuery(%s): %w", 0)]
    ELSE IF ~env.countOK THEN [none EXCEPT !.err = Errorf("oleutil.GetProperty(Count): %w", 0)]
    ELSE EnumLoop(0, none, [env EXCEPT !.count = IF @ > 0 THEN @ - 1 ELSE 0], base)

\* what GetVolumes returns, and the handles it fetched through ItemIndex
GetVolumesResult(env, base) ==
    LET none == [vols |-> <<>>, items |-> <<>>, err |-> NilErr] IN
    IF ~env.execOK THEN [none EXCEPT !.err = Errorf("ExecQuery(%s): %w", 0)]
    ELSE IF ~env.countOK THEN [none EXCEPT !.err = Errorf("oleutil.GetProperty(Count): %w", 0)]
    ELSE EnumLoop(0, none, env, base)

GetVolumes(filter, env) ==
    LET g == GetVolumesResult(env, nextHandle) IN
    /\ ~crashed
    /\ nextHandle + Len(g.items) - 1 <= MaxHandles
    /\ vset' = g.vols
    /\ nextHandle' = nextHandle + Len(g.items)
    /\ last' = [NoCall EXCEPT !.op = "GetVolumes", !.filter = filter,
                              !.query = BuildQuery(filter),
                              !.execOK = env.execOK, !.countOK = env.countOK,
                              !.count = env.count, !.failIdx = env.failIdx,
                              !.err = g.err, !.items = g.items,
                              !.resultReleased = env.execOK]
    /\ UNCHANGED <<released, fvol, crashed>>

\* every answer the native layer can give to one GetVolumes call
GetVolumesAny(filter) ==
    \/ GetVolumes(filter, EnvFor(FALSE, FALSE, 0, 0, "none", 0, <<>>))
    \/ GetVolumes(filter, EnvFor(TRUE, FALSE, 0, 0, "none", 0, <<>>))
    \/ \E count \in 0..MaxCount :
          \E bad \in [1..count -> DecodeFailures] :
             GetVolumes(filter, EnvFor(TRUE, TRUE, count, 0, "none", 0, bad))
    \/ \E count \in 1..MaxCount :
          \E failIdx \in 1..count :
          \E bad \in [1..(failIdx - 1) -> DecodeFailures] :
             \/ \E kind \in {"ItemIndex", "NotDispatch"} :
                   GetVolumes(filter, EnvFor(TRUE, TRUE, count, failIdx, kind, 0, bad))
             \/ \E qFailAt \in 1..NumProps :
                   GetVolumes(filter, EnvFor(TRUE, TRUE, count, failIdx, "Query", qFailAt, bad))

(* --------------------------- the caller ------------------------------- *)
\* the file system names of the Format documentation, in several spellings,
\* and strings that are no file system name
FsNames ==
    { <<"R","e","F","S">>, <<"r","e","f","s">>, <<"R","E","F","S">>, <<"r","E","f","S">>,
      <<"R","e","F","U+017F">>, <<"N","T","F","S">>, <<"F","A","T","3","2">>,
      <<"E","x","F","A","T">>, <<>>, <<"R","e","F">>, <<"R","e","F","S"," ">> }

Labels == {<<>>, <<"L">>}

AllocSizes == {0, 4096}

\* Every argument list of the bounded input space.  The label, full, force
\* and disableHeatGathering are passed on as they are and vary together.
FormatInputs ==
    {FormatInput(fs, IF f THEN <<"L">> ELSE <<>>, a, f, f, c, s, i, u, f) :
        fs \in FsNames, a \in AllocSizes, f \in BOOLEAN,
        c \in BOOLEAN, s \in BOOLEAN, i \in BOOLEAN, u \in BOOLEAN}

\* the argument lists used where the arguments are not the subject: ReFS and
\* one other file system, the four options all set or all clear
PlainInputs ==
    {FormatInput(fs, <<>>, 0, FALSE, FALSE, b, b, b, b, FALSE) :
        fs \in {<<"R","e","F","S">>, <<"N","T","F","S">>}, b \in BOOLEAN}

OptimizeInputs == {[k \in 1..5 |-> b] : b \in BOOLEAN}

\* Volumes a caller can write down itself: the fields are exported, the
\* handle is not
CallerVolumes == {ZeroVolume, [ZeroVolume EXCEPT !.DriveLetter = 9, !.Size = 9]}

\* GetVolumes with every call and every decoding succeeding
GetVolumesOK(filter) ==
    \E count \in 0..MaxCount :
       GetVolumes(filter, EnvFor(TRUE, TRUE, count, 0, "none", 0, [k \in 1..count |-> {}]))

Init ==
    /\ released = [h \in Handles |-> 0]
    /\ nextHandle = 1
    /\ vset = <<>>
    /\ fvol = ZeroVolume
    /\ last = NoCall
    /\ crashed = FALSE

\* Enumeration and release: every answer of the native layer to GetVolumes,
\* and the caller closing Volumes and VolumeSets as it likes.
Next ==
    \/ GetVolumesAny(<<>>)
    \/ \E r \in Receivers, dies \in BOOLEAN : VolumeClose(r, dies)
    \/ \E stopAt \in 0..Len(vset) : VolumeSetClose(stopAt)

Spec == Init /\ [][Next]_vars

\* the caller after an enumeration that returned one Volume
InitOne ==
    /\ released = [h \in Handles |-> 0]
    /\ nextHandle = 2
    /\ vset = GetVolumesResult(EnvFor(TRUE, TRUE, 1, 0, "none", 0, <<{}>>), 1).vols
    /\ fvol = ZeroVolume
    /\ last = NoCall
    /\ crashed = FALSE

\* The operations on one Volume that forward to a native method.
NextCalls ==
    \/ \E r \in Receivers, dies \in BOOLEAN : VolumeClose(r, dies)
    \/ \E r \in Receivers, ans \in Answers : Flush(r, ans)
    \/ \E r \in Receivers, flags \in OptimizeInputs, ans \in Answers : Optimize(r, flags, ans)
    \/ \E r \in Receivers, label \in Labels, ans \in Answers :
          SetFileSystemLabel(r, label, ans)
    \/ \E r \in Receivers, in \in PlainInputs, ans \in FormatAnswers : Format(r, in, ans)

SpecCalls == InitOne /\ [][NextCalls]_vars

\* Query on the Volumes of an enumeration and on the caller's own.
NextQuery ==
    \/ GetVolumesOK(<<>>)
    \/ \E r \in Receivers, dies \in BOOLEAN : VolumeClose(r, dies)
    \/ \E r \in Receivers, failAt \in 0..NumProps, bad \in DecodeFailures, dies \in BOOLEAN :
          VolumeQuery(r, failAt, bad, dies)

\* the caller may start with a Volume it wrote down itself
InitQuery ==
    /\ released = [h \in Handles |-> 0]
    /\ nextHandle = 1
    /\ vset = <<>>
    /\ fvol \in CallerVolumes
    /\ last = NoCall
    /\ crashed = FALSE

SpecQuery == InitQuery /\ [][NextQuery]_vars

\* Format over the whole bounded input space; the native call fails or
\* returns status 0.
NextFormat ==
    \E r \in Receivers, in \in FormatInputs,
       ans \in {Answer("panic", NoRes, FALSE), Answer("err", NoRes, FALSE),
                Answer("ok", StatusOK, FALSE)} :
       Format(r, in, ans)

SpecFormat == InitOne /\ [][NextFormat]_vars

\* The query string over every filter, whatever ExecQuery and Count answer.
NextFilter ==
    \E filter \in Filters, execOK \in BOOLEAN, countOK \in BOOLEAN :
       /\ countOK => execOK
       /\ GetVolumes(filter, EnvFor(execOK, countOK, 0, 0, "none", 0, <<>>))

SpecFilter == Init /\ [][NextFilter]_vars

(* ============================== the claims ============================ *)
MutatingOps == {"Flush", "Format", "Optimize", "SetFileSystemLabel"}

\* the text of the error that carries the status code of each operation
CodeText(op) ==
    CASE op = "Flush" -> "error code returned during flush: %d"
      [] op = "Format" -> "error code returned during formatting: %d"
      [] op = "Optimize" -> "error code returned during optimization: %d"
      [] op = "SetFileSystemLabel" ->
            "error code returned during setting file system label: %d"

Range(seq) == {seq[k] : k \in 1..Len(seq)}

HandlesOf(vols) == {vols[k].handle : k \in 1..Len(vols)}

(* C1: Volume.Close is idempotent: a Close of a Volume whose handle was     *)
(* released before releases nothing, so no handle is released more than     *)
(* once and no Close panics.                                                *)
C1_CloseIdempotent ==
    last.op = "Close" /\ last.handle # Nil =>
        released[last.handle] <= 1 /\ ~crashed

(* C2: for Flush, Format, Optimize and SetFileSystemLabel: a native call    *)
(* that succeeds with a non-zero status code c yields the error of that     *)
(* operation that carries c; the error is nil only when the call succeeded  *)
(* with status code 0.                                                      *)
C2_StatusSurfaces ==
    last.op \in MutatingOps /\ last.outcome # "panic" =>
        /\ (last.outcome = "ok" /\ last.res.vt = "int32" /\ last.res.val # 0) =>
              last.err = Errorf(CodeText(last.op), last.res.val)
        /\ last.err = NilErr => last.outcome = "ok" /\ last.res = StatusOK

C2_Witness ==
    /\ last.op = "SetFileSystemLabel"
    /\ last.outcome = "ok"
    /\ last.res = [vt |-> "int32", val |-> MaxStatus]
    /\ last.err.code = MaxStatus

(* C3: Format passes null for compress and short-filename and the caller's  *)
(* values for integrity-streams and large-FRS when fs equals "ReFS"         *)
(* ignoring case, and the inverse for every other fs; the two groups are    *)
(* never both null and never both non-null.                                 *)
UpperChar(c) ==
    CASE c = "r" -> "R"
      [] c = "e" -> "E"
      [] c = "f" -> "F"
      [] c \in {"s", "U+017F"} -> "S"
      [] OTHER -> c

IsReFSIgnoringCase(fs) ==
    [k \in 1..Len(fs) |-> UpperChar(fs[k])] = <<"R", "E", "F", "S">>

C3_OptionGroups ==
    last.op = "Format" =>
        /\ IF IsReFSIgnoringCase(last.in.fs)
           THEN /\ last.icompress = Null /\ last.ishortn = Null
                /\ last.iintegrity = Some(last.in.setIntegrityStreams)
                /\ last.ilfrs = Some(last.in.useLargeFRS)
           ELSE /\ last.icompress = Some(last.in.compress)
                /\ last.ishortn = Some(last.in.shortFileNameSupport)
                /\ last.iintegrity = Null /\ last.ilfrs = Null
        /\ (last.icompress = Null) = (last.ishortn = Null)
        /\ (last.iintegrity = Null) = (last.ilfrs = Null)
        /\ (last.icompress = Null) # (last.iintegrity = Null)

C3_Witness ==
    /\ last.op = "Format"
    /\ last.outcome = "ok"
    /\ last.in.fs = <<"r", "E", "f", "S">>
    /\ last.in.compress /\ ~last.in.setIntegrityStreams /\ last.in.useLargeFRS
    /\ last.icompress = Null
    /\ last.iintegrity = Some(FALSE)
    /\ last.ilfrs = Some(TRUE)

(* C4: Query on a Volume whose handle is nil returns the "invalid handle"   *)
(* error, reads no native property and changes no field of any Volume.      *)
C4_QueryNilHandle ==
    [][(last'.op = "Query" /\ Recv(last'.recv).handle = Nil) =>
          /\ last'.err = Errorf("invalid handle", 0)
          /\ last'.reads = 0
          /\ fvol' = fvol /\ vset' = vset
          /\ ~crashed']_vars

C4_Witness ==
    /\ last.op = "Query"
    /\ last.recv = 0
    /\ last.err = Errorf("invalid handle", 0)
    /\ fvol.handle = Nil
    /\ fvol.Size = 9

(* C5 as stated: a successful Format that hands out a new handle has       *)
(* replaced the receiver's handle with it, and the old handle is invalid    *)
(* from then on; a failed Format hands out no handle.                       *)
C5_ReplacesHandle ==
    last.op = "Format" /\ last.outcome # "panic" =>
        IF last.err = NilErr
        THEN fvol.handle # Nil =>
                /\ Recv(last.recv).handle = fvol.handle
                /\ released[last.handle] > 0
        ELSE fvol.handle = Nil

(* C5, amended: a successful Format returns a new Volume that holds the     *)
(* object the native call stored in formattedVolume (nil if it stored       *)
(* none), a new object that is the caller's to release; the receiver's      *)
(* handle is neither replaced nor released; a failed Format returns a       *)
(* Volume whose handle is nil.                                              *)
C5_ReturnsNewVolume ==
    [][(last'.op = "Format" /\ last'.outcome # "panic") =>
          /\ released' = released
          /\ vset' = vset
          /\ IF last'.err = NilErr
             THEN /\ fvol'.handle = last'.out
                  /\ last'.out # Nil =>
                        /\ last'.out = nextHandle
                        /\ nextHandle' = nextHandle + 1
                        /\ released'[last'.out] = 0
             ELSE fvol'.handle = Nil /\ nextHandle' = nextHandle]_vars

C5_Witness ==
    /\ last.op = "Format"
    /\ last.err = NilErr /\ last.outcome = "ok"
    /\ last.recv = 1
    /\ fvol.handle # Nil
    /\ vset[1].handle = last.handle
    /\ vset[1].handle # fvol.handle
    /\ released[last.handle] = 0

(* C6: when GetVolumes fails on result item i, it returns an error, fetches *)
(* no later item, and the returned VolumeSet holds exactly the Volumes of   *)
(* items 0..i-1, in order, each with its handle unreleased.                 *)
C6_PartialSetOnItemFailure ==
    last.op = "GetVolumes" /\ last.failIdx # 0 =>
        /\ last.err # NilErr
        /\ Len(last.items) <= last.failIdx
        /\ Len(vset) = last.failIdx - 1
        /\ \A k \in 1..Len(vset) :
              /\ vset[k].handle = last.items[k]
              /\ vset[k].handle # Nil
              /\ vset[k].DriveLetter = NativeProp(last.items[k], "DriveLetter")
              /\ released[vset[k].handle] = 0

C6_Witness ==
    /\ last.op = "GetVolumes"
    /\ last.failIdx = MaxCount
    /\ last.err # NilErr
    /\ Len(vset) = MaxCount - 1
    /\ Len(last.items) = MaxCount

(* C7 as stated: when the query and every per-item fetch and Query succeed, *)
(* GetVolumes returns a nil error and one Volume per result item, in order. *)
C7_SuccessAfterQuery ==
    last.op = "GetVolumes" /\ last.execOK /\ last.failIdx = 0 =>
        /\ last.err = NilErr
        /\ Len(vset) = last.count

(* C7, amended: when the query, the read of the result's Count and every    *)
(* per-item fetch and Query succeed, GetVolumes returns a nil error and one *)
(* Volume per result item, in result-index order; with zero items, an       *)
(* empty VolumeSet and no error.                                            *)
C7_SuccessAfterCount ==
    last.op = "GetVolumes" /\ last.execOK /\ last.countOK /\ last.failIdx = 0 =>
        /\ last.err = NilErr
        /\ Len(vset) = last.count
        /\ Len(last.items) = last.count
        /\ \A k \in 1..Len(vset) :
              /\ vset[k].handle = last.items[k]
              /\ vset[k].DriveLetter = NativeProp(last.items[k], "DriveLetter")
        /\ \A j, k \in 1..Len(vset) : j < k => last.items[j] < last.items[k]

C7_Witness ==
    /\ last.op = "GetVolumes"
    /\ last.countOK /\ last.failIdx = 0
    /\ last.count = MaxCount
    /\ Len(vset) = MaxCount
    /\ last.err = NilErr

(* C8: the query passed to ExecQuery is "SELECT * FROM MSFT_Volume" for the *)
(* empty filter, and that text, one space and the filter otherwise.         *)
C8_QueryString ==
    last.op = "GetVolumes" =>
        LET n == Len(QueryBase) IN
        /\ SubSeq(last.query, 1, n) = QueryBase
        /\ IF last.filter = <<>> THEN Len(last.query) = n
           ELSE /\ Len(last.query) = n + 1 + Len(last.filter)
                /\ last.query[n + 1] = " "
                /\ SubSeq(last.query, n + 2, Len(last.query)) = last.filter

C8_Witness ==
    /\ last.op = "GetVolumes"
    /\ Len(last.filter) = MaxFilterLen
    /\ last.filter[1] = " "
    /\ Len(last.query) = Len(QueryBase) + 1 + MaxFilterLen

(* C9: one VolumeSet.Close on the VolumeSet GetVolumes has just returned    *)
(* releases the handle of every member exactly once.                        *)
C9_SetCloseReleasesAll ==
    [][(last.op = "GetVolumes" /\ last'.op = "VolumeSet.Close") =>
          /\ \A k \in 1..Len(vset) :
                released[vset[k].handle] = 0 /\ released'[vset[k].handle] = 1
          /\ \A h \in Handles \ HandlesOf(vset) : released'[h] = released[h]
          /\ ~crashed']_vars

C9_Witness ==
    /\ last.op = "VolumeSet.Close"
    /\ Len(vset) = MaxCount
    /\ \A k \in 1..Len(vset) : released[vset[k].handle] = 1
    /\ ~crashed

(* C10: after GetVolumes returns, every handle it fetched through ItemIndex *)
(* is held by a Volume of the returned VolumeSet or has been released.      *)
C10_NoHandleLost ==
    last.op = "GetVolumes" =>
        \A h \in Range(last.items) : h \in HandlesOf(vset) \/ released[h] > 0

====
